---- MODULE Spec2Model ----
(***************************************************************************)
(* State-machine model of scripts/find_structural_firms_uk.py: the         *)
(* discovery-and-deduplication pipeline main(), the site scanner           *)
(* extract_generic_emails_from_site(), the seen-state file and the two     *)
(* output artifacts.  Upstream collaborators (places search, place         *)
(* details, website fetch) are inputs chosen nondeterministically.         *)
(***************************************************************************)
EXTENDS Integers, Sequences, FiniteSets, TLC

VARIABLES
    seenFile,        \* data/seen_companies.json on disk
    masterFile,      \* rows of data/master_companies.xlsx on disk
    dailyFile,       \* rows of the last out/uk_companies_<date>.xlsx written
    DAILY_LIMIT,     \* the configured daily cap
    web,             \* what the website of every business answers, per path
    pc,              \* position of main()
    run,             \* number of the current run of main()
    seen_place_ids,  \* main(): in-memory set of seen identifiers
    seen_domains,    \* main(): in-memory set of seen domains
    places,          \* main(): the search response, in returned order
    enriched,        \* main(): (dist, pid, p) triples after the sort
    idx,             \* main(): position of the for loop in enriched
    selected_rows,   \* main(): rows accepted so far
    det,             \* main(): the detail response of the candidate in hand
    pathIdx,         \* scanner: position of the for loop in CANDIDATE_PATHS
    found,           \* scanner: the set of matched addresses
    checked,         \* scanner: the list of URLs fetched
    scanLog,         \* scanner: fetch attempts and sleeps of the scan in hand
    outcome,         \* history: what the loop did with each candidate reached
    writes,          \* history: files written by this run, in order
    loaded,          \* history: the seen sets as loaded at the start of the run
    prevRuns         \* history: per completed run, its response and its rows

vars == <<seenFile, masterFile, dailyFile, DAILY_LIMIT, web, pc, run,
          seen_place_ids, seen_domains, places, enriched, idx, selected_rows,
          det, pathIdx, found, checked, scanLog, outcome, writes, loaded,
          prevRuns>>

----------------------------------------------------------------------------
(* Bounds of the model *)

MaxPlaces == 2      \* longest search response
MaxLimit == 2       \* largest daily cap
MaxRuns == 2        \* runs of main() in a row
NumPaths == 2       \* how many of the candidate paths a scan probes

----------------------------------------------------------------------------
(* Program constants *)

\* Distances are held in hundredths of a kilometre.
NoCoordsDist == 999900      \* dist = 9999.0
BlankAbove == 900000        \* dist < 9000

CANDIDATE_PATHS ==
    << "/", "/careers", "/careers/", "/jobs", "/jobs/", "/join-us", "/join-us/",
       "/work-with-us", "/work-with-us/", "/contact", "/contact/",
       "/contact-us", "/contact-us/", "/vacancies", "/vacancies/",
       "/join", "/join/" >>

\* The prefix of CANDIDATE_PATHS the model scans.
ScanPaths == SubSeq(CANDIDATE_PATHS, 1, NumPaths)

----------------------------------------------------------------------------
(* Inputs: what the collaborators can answer *)

\* Search results.  km is the great-circle distance of the place's location
\* from the home coordinates, in hundredths of a kilometre; it is read only
\* when both coordinates are present.
PlNoId   == [id |-> "",   hasLat |-> TRUE,  hasLng |-> TRUE,  km |-> 100,
             name |-> "Civils Co"]
PlDelta  == [id |-> "p1", hasLat |-> TRUE,  hasLng |-> TRUE,  km |-> 250,
             name |-> "delta Structures"]
PlAlpha  == [id |-> "p2", hasLat |-> TRUE,  hasLng |-> TRUE,  km |-> 250,
             name |-> "Alpha Engineers"]
PlNoLoc  == [id |-> "p3", hasLat |-> TRUE,  hasLng |-> FALSE, km |-> 0,
             name |-> "Beta Design"]
PlFar    == [id |-> "p4", hasLat |-> TRUE,  hasLng |-> TRUE,  km |-> 1200000,
             name |-> "Epsilon Consulting"]

PlaceUniverse == {PlNoId, PlDelta, PlAlpha, PlNoLoc, PlFar}

Pids == {p.id : p \in PlaceUniverse} \ {""}

RECURSIVE SeqsUpTo(_, _)
SeqsUpTo(S, n) ==
    IF n = 0 THEN {<<>>}
    ELSE LET shorter == SeqsUpTo(S, n - 1)
         IN shorter \cup {Append(s, x) : s \in {t \in shorter : Len(t) = n - 1}, x \in S}

SearchResponses == SeqsUpTo(PlaceUniverse, MaxPlaces)

\* Website URIs as text: an optional scheme prefix, a host and a path.
NoWebsite == [prefix |-> "", host |-> "", path |-> ""]
WebBare   == [prefix |-> "", host |-> "firm.co.uk", path |-> "/jobs"]
WebHttp   == [prefix |-> "http://", host |-> "FIRM.co.uk", path |-> "/"]
WebOther  == [prefix |-> "https://", host |-> "other.co.uk", path |-> ""]

Websites == {NoWebsite, WebBare, WebHttp, WebOther}

\* Detail responses: a failure, or a record with a websiteUri.
DetFail == [ok |-> FALSE, websiteUri |-> NoWebsite]
DetailResponses == {DetFail} \cup {[ok |-> TRUE, websiteUri |-> w] : w \in Websites}


\* Pages: the e-mail addresses that occur in the markup.  The local part is
\* split into its maximal runs of word characters and the separators between.
AddrCareers == [local |-> <<"careers">>, dom |-> "firm.co.uk"]
AddrSmith   == [local |-> <<"john", ".", "smith">>, dom |-> "firm.co.uk"]

AddrJohnHr  == [local |-> <<"john", ".", "hr">>, dom |-> "firm.co.uk"]

PagePlain == {AddrSmith}
PageRoles == {AddrCareers, AddrSmith}

PageStaff == {AddrJohnHr}

Pages == {PagePlain, PageRoles, PageStaff}

FetchFail == [ok |-> FALSE, html |-> {}]
FetchResponses == {FetchFail} \cup {[ok |-> TRUE, html |-> h] : h \in Pages}

----------------------------------------------------------------------------
(* Pure helpers *)

\* str.lower() on the host names and words of the model.
Lower(s) ==
    CASE s = "FIRM.co.uk" -> "firm.co.uk"
      [] s = "Careers"    -> "careers"
      [] s = "HR"         -> "hr"
      [] OTHER            -> s

\* urlparse(): scheme and netloc.  Text without "//" has no netloc: the host
\* is then part of the path.
UrlParse(w) ==
    CASE w.prefix = "http://"  -> [scheme |-> "http",  netloc |-> w.host]
      [] w.prefix = "https://" -> [scheme |-> "https", netloc |-> w.host]
      [] OTHER                 -> [scheme |-> "",      netloc |-> ""]

EmptyBase == [scheme |-> "", netloc |-> ""]

normalize_base(website) ==
    IF website = NoWebsite THEN EmptyBase
    ELSE LET p == UrlParse(website)
         IN IF p.scheme = ""
            THEN UrlParse([website EXCEPT !.prefix = "https://"])
            ELSE p

\* domain = urlparse(base).netloc.lower() if base else ""
DomainOf(base) == IF base = EmptyBase THEN "" ELSE Lower(base.netloc)

Bases == {normalize_base(w) : w \in Websites} \ {EmptyBase}
Domains == {DomainOf(b) : b \in Bases}

\* urljoin(base, path) for an absolute path
urljoin(base, path) == [base |-> base, path |-> path]

Urls == {urljoin(b, ScanPaths[i]) : b \in Bases, i \in 1..Len(ScanPaths)}

RoleWords == {"careers", "recruitment", "recruiting", "jobs", "talent",
              "people", "hiring", "vacancies", "hr"}

\* GENERIC_EMAIL.finditer(html): the matched literals.  The pattern starts at
\* a word boundary, so it matches the last word run of a local part.
GENERIC_EMAIL(html) ==
    {[local |-> <<a.local[Len(a.local)]>>, dom |-> a.dom] :
        a \in {b \in html : Lower(b.local[Len(b.local)]) \in RoleWords}}

\* get_latlng() and the distance of lines 211-213
DistOf(p) == IF p.hasLat /\ p.hasLng THEN p.km ELSE NoCoordsDist

\* An insertion that puts an element before the elements of equal dist
RECURSIVE InsertBeforeTies(_, _)
InsertBeforeTies(s, e) ==
    IF s = <<>> THEN <<e>>
    ELSE IF s[Len(s)].dist < e.dist THEN Append(s, e)
    ELSE Append(InsertBeforeTies(SubSeq(s, 1, Len(s) - 1), e), s[Len(s)])

\* list.sort(key=lambda x: x[0]): stable, ascending by dist
RECURSIVE InsertByDist(_, _)
InsertByDist(s, e) ==
    IF s = <<>> THEN <<e>>
    ELSE IF s[Len(s)].dist <= e.dist THEN Append(s, e)
    ELSE Append(InsertByDist(SubSeq(s, 1, Len(s) - 1), e), s[Len(s)])

RECURSIVE SortByDist(_)
SortByDist(s) ==
    IF s = <<>> THEN <<>>
    ELSE InsertByDist(SortByDist(SubSeq(s, 1, Len(s) - 1)), s[Len(s)])

\* Lines 207-214 without the sort of line 215
EnrichUnsorted(resp) ==
    [i \in 1..Len(resp) |->
        [dist |-> DistOf(resp[i]), pid |-> resp[i].id, p |-> resp[i]]]

\* lines 207-215
Enrich(resp) ==
    SortByDist([i \in 1..Len(resp) |->
                   [dist |-> DistOf(resp[i]), pid |-> resp[i].id, p |-> resp[i]]])

\* round(dist, 1), in tenths of a kilometre (ties to even)
Round1(h) ==
    LET q == h \div 10
        r == h % 10
    IN IF r > 5 \/ (r = 5 /\ q % 2 = 1) THEN q + 1 ELSE q

PagesCheckedCap == 6

\* lines 250-262: the fields of the row that depend on the candidate
MakeRow(dist, pid, website, domain, emails, pages) ==
    [place_id |-> pid,
     distance_km |-> IF dist < BlankAbove THEN <<Round1(dist)>> ELSE <<>>,
     website |-> website,
     emails |-> emails,
     pages_checked |-> SubSeq(pages, 1, IF Len(pages) < PagesCheckedCap
                                        THEN Len(pages) ELSE PagesCheckedCap),
     company_domain |-> domain]

----------------------------------------------------------------------------
(* Initial state *)

\* The seen-state file: whether it exists, the form of its content and the
\* two arrays.  form is "record" for what save_seen() writes.
NoFile == [exists |-> FALSE, form |-> "none", seen_place_ids |-> {},
           seen_domains |-> {}]

\* A seen-state file left by earlier runs
SeenFileOf(ids, domains) ==
    [exists |-> TRUE, form |-> "record", seen_place_ids |-> ids,
     seen_domains |-> domains]

\* Malformed files.  Garbled: text json.load() cannot parse.  NoIdsField: a
\* JSON object that lacks "seen_place_ids".  IdsAsText: "seen_place_ids" holds
\* the string "p2" instead of an array; set() of a string is its characters.
GarbledFile == [exists |-> TRUE, form |-> "garbled", seen_place_ids |-> {},
                seen_domains |-> {}]
NoIdsFieldFile == [exists |-> TRUE, form |-> "no_ids", seen_place_ids |-> {},
                   seen_domains |-> {"firm.co.uk"}]
IdsAsTextFile == [exists |-> TRUE, form |-> "ids_text",
                  seen_place_ids |-> {"p", "2"}, seen_domains |-> {"firm.co.uk"}]

\* The websites: what every URL answers.  Every page of other.co.uk answers
\* and holds a role address; the pages of firm.co.uk answer as f says.
WebOf(f) ==
    [u \in Urls |-> IF DomainOf(u.base) = "firm.co.uk" THEN f[u.path]
                    ELSE [ok |-> TRUE, html |-> PageRoles]]

FirstPathFails ==
    [q \in {ScanPaths[i] : i \in 1..Len(ScanPaths)} |->
        IF q = ScanPaths[1] THEN FetchFail ELSE [ok |-> TRUE, html |-> PageRoles]]

AllPathsAnswer ==
    [q \in {ScanPaths[i] : i \in 1..Len(ScanPaths)} |-> [ok |-> TRUE, html |-> PageRoles]]

NoDet == DetFail

InitWith(files, webs) ==
    /\ seenFile \in files
    /\ masterFile = <<>>
    /\ dailyFile = <<>>
    /\ DAILY_LIMIT \in 0..MaxLimit
    /\ web \in webs
    /\ pc = "load"
    /\ run = 1
    /\ seen_place_ids = {}
    /\ seen_domains = {}
    /\ places = <<>>
    /\ enriched = <<>>
    /\ idx = 1
    /\ selected_rows = <<>>
    /\ det = NoDet
    /\ pathIdx = 1
    /\ found = {}
    /\ checked = <<>>
    /\ scanLog = <<>>
    /\ outcome = <<>>
    /\ writes = <<>>
    /\ loaded = [seen_place_ids |-> {}, seen_domains |-> {}]
    /\ prevRuns = <<>>

\* Runs in a row: the first run finds no file, or one left by earlier runs.
Init ==
    InitWith({NoFile, SeenFileOf({"p2"}, {"firm.co.uk"})}, {WebOf(FirstPathFails)})

\* One run, from any of the seen-state files below.
InitRun ==
    InitWith({NoFile} \cup {SeenFileOf(i, d) : i \in SUBSET {"p2", "p3"},
                                             d \in SUBSET {"firm.co.uk"}},
             {WebOf(FirstPathFails), WebOf(AllPathsAnswer)})

\* One run, the pages of firm.co.uk failing or answering in every combination.
InitScan ==
    InitWith({NoFile},
             {WebOf(f) : f \in [{ScanPaths[i] : i \in 1..Len(ScanPaths)} -> FetchResponses]})

\* One run, from a missing, a well-formed or a malformed seen-state file.
InitFail ==
    InitWith({NoFile, SeenFileOf({"p2"}, {"firm.co.uk"}), GarbledFile,
              NoIdsFieldFile, IdsAsTextFile},
             {WebOf(FirstPathFails)})

\* Runs that can be killed, under the largest cap.
InitCrash ==
    /\ InitWith({NoFile, SeenFileOf({"p2"}, {"firm.co.uk"})}, {WebOf(FirstPathFails)})
    /\ DAILY_LIMIT = MaxLimit

----------------------------------------------------------------------------
(* main(), lines 198-215: load the seen-state, search, sort *)

scanVars == <<pathIdx, found, checked, scanLog>>
diskVars == <<seenFile, masterFile, dailyFile>>
envVars == <<DAILY_LIMIT, web>>

\* json.load() of line 94 parses the content
Parses(file) == file.form # "garbled"

\* seen.get("seen_place_ids", []) of line 200
IdsOf(file) ==
    IF file.exists /\ file.form # "no_ids" THEN file.seen_place_ids ELSE {}

\* load_seen() and lines 200-201
LoadSeen ==
    /\ pc = "load"
    /\ seenFile.exists => Parses(seenFile)
    /\ seen_place_ids' = IdsOf(seenFile)
    /\ seen_domains' = (IF seenFile.exists THEN seenFile.seen_domains ELSE {})
    /\ loaded' = [seen_place_ids |-> seen_place_ids', seen_domains |-> seen_domains']
    /\ pc' = "search"
    /\ UNCHANGED <<diskVars, envVars, run, places, enriched, idx, selected_rows,
                   det, scanVars, outcome, writes, prevRuns>>

\* load_seen(): json.load() raises, main() ends with the exception
LoadFails ==
    /\ pc = "load"
    /\ seenFile.exists
    /\ ~Parses(seenFile)
    /\ pc' = "load_failed"
    /\ UNCHANGED <<diskVars, envVars, run, seen_place_ids, seen_domains, places,
                   enriched, idx, selected_rows, det, scanVars, outcome, writes,
                   loaded, prevRuns>>

\* The failure of the search taken for an empty result
SearchFailureSwallowed == "persist"

\* Where main() is after http_post() raised in places_search_text()
SearchFailureExit == "search_failed"

\* line 204: raise_for_status() raises, main() ends with the exception
SearchFails ==
    /\ pc = "search"
    /\ pc' = SearchFailureExit
    /\ UNCHANGED <<diskVars, envVars, run, seen_place_ids, seen_domains, places,
                   enriched, idx, selected_rows, det, scanVars, outcome, writes,
                   loaded, prevRuns>>

\* places_search_text() answers, then lines 206-217
Search ==
    /\ pc = "search"
    /\ \E resp \in SearchResponses :
          /\ places' = resp
          /\ enriched' = Enrich(resp)
    /\ idx' = 1
    /\ selected_rows' = <<>>
    /\ pc' = "loop"
    /\ UNCHANGED <<diskVars, envVars, run, seen_place_ids, seen_domains, det,
                   scanVars, outcome, writes, loaded, prevRuns>>

----------------------------------------------------------------------------
(* main(), lines 218-270: the candidate loop *)

\* the for loop is exhausted, or line 219 breaks
LoopDone == idx > Len(enriched) \/ Len(selected_rows) >= DAILY_LIMIT

\* The check of line 221 without its test for an absent identifier
SkippedOnlySeen(pid, ids) == pid \in ids

\* The check of line 221 without its membership test
SkippedIgnoringSeen(pid, ids) == pid = ""

\* line 221
Skipped(pid, ids) == pid = "" \/ pid \in ids

\* Line 237 testing the domains of the file instead of the live set
DomainSeenWhenLoaded(domain, domains) ==
    domain # "" /\ domain \in loaded.seen_domains

\* line 237
DomainSeen(domain, domains) == domain # "" /\ domain \in domains

\* Lines 229 and 238 leaving the identifier unmarked
MarkSeenDropped(ids, pid) == ids

\* lines 229 and 238: seen_place_ids.add(pid)
MarkSeen(ids, pid) == ids \cup {pid}

Cur == enriched[idx]

Note(what, resp) == Append(outcome, [what |-> what, pid |-> Cur.pid, det |-> resp])

\* The output writers of lines 281-282 placed before line 275
AfterTheLoopOutputsFirst == "daily"

\* line 272: what follows the loop
AfterTheLoop == "persist"

LoopExit ==
    /\ pc = "loop"
    /\ LoopDone
    /\ pc' = AfterTheLoop
    /\ UNCHANGED <<diskVars, envVars, run, seen_place_ids, seen_domains, places,
                   enriched, idx, selected_rows, det, scanVars, outcome, writes,
                   loaded, prevRuns>>

\* lines 221-222
LoopSkip ==
    /\ pc = "loop"
    /\ ~LoopDone
    /\ Skipped(Cur.pid, seen_place_ids)
    /\ idx' = idx + 1
    /\ outcome' = Note("skipped", NoDet)
    /\ UNCHANGED <<diskVars, envVars, pc, run, seen_place_ids, seen_domains,
                   places, enriched, selected_rows, det, scanVars, writes,
                   loaded, prevRuns>>

\* lines 225-230: place_details() raises
DetailsFail ==
    /\ pc = "loop"
    /\ ~LoopDone
    /\ ~Skipped(Cur.pid, seen_place_ids)
    /\ seen_place_ids' = MarkSeen(seen_place_ids, Cur.pid)
    /\ idx' = idx + 1
    /\ outcome' = Note("detail_failed", DetFail)
    /\ UNCHANGED <<diskVars, envVars, pc, run, seen_domains, places, enriched,
                   selected_rows, det, scanVars, writes, loaded, prevRuns>>

\* lines 232-239: the domain of the website is already seen
DomainDup ==
    /\ pc = "loop"
    /\ ~LoopDone
    /\ ~Skipped(Cur.pid, seen_place_ids)
    /\ \E resp \in DetailResponses :
          /\ resp.ok
          /\ DomainSeen(DomainOf(normalize_base(resp.websiteUri)), seen_domains)
          /\ outcome' = Note("domain_seen", resp)
    /\ seen_place_ids' = MarkSeen(seen_place_ids, Cur.pid)
    /\ idx' = idx + 1
    /\ UNCHANGED <<diskVars, envVars, pc, run, seen_domains, places, enriched,
                   selected_rows, det, scanVars, writes, loaded, prevRuns>>

\* Lines 263-268 without the test of line 267
AcceptMarkingAnyDomain(row) ==
    /\ selected_rows' = Append(selected_rows, row)
    /\ seen_place_ids' = seen_place_ids \cup {row.place_id}
    /\ seen_domains' = seen_domains \cup {row.company_domain}

\* lines 263-268
Accept(row) ==
    /\ selected_rows' = Append(selected_rows, row)
    /\ seen_place_ids' = seen_place_ids \cup {row.place_id}
    /\ seen_domains' = (IF row.company_domain # ""
                        THEN seen_domains \cup {row.company_domain}
                        ELSE seen_domains)

\* lines 232-270 with no website: no scan, the row is accepted
AcceptNoSite ==
    /\ pc = "loop"
    /\ ~LoopDone
    /\ ~Skipped(Cur.pid, seen_place_ids)
    /\ \E resp \in DetailResponses :
          /\ resp.ok
          /\ normalize_base(resp.websiteUri) = EmptyBase
          /\ Accept(MakeRow(Cur.dist, Cur.pid, resp.websiteUri, "", {}, <<>>))
          /\ outcome' = Note("accepted", resp)
          /\ det' = resp
    /\ idx' = idx + 1
    /\ UNCHANGED <<diskVars, envVars, pc, run, places, enriched, scanVars,
                   writes, loaded, prevRuns>>

\* lines 232-243 with a website whose domain is new: the scan starts
ScanBegin ==
    /\ pc = "loop"
    /\ ~LoopDone
    /\ ~Skipped(Cur.pid, seen_place_ids)
    /\ \E resp \in DetailResponses :
          /\ resp.ok
          /\ normalize_base(resp.websiteUri) # EmptyBase
          /\ ~DomainSeen(DomainOf(normalize_base(resp.websiteUri)), seen_domains)
          /\ det' = resp
    /\ pathIdx' = 1
    /\ found' = {}
    /\ checked' = <<>>
    /\ scanLog' = <<>>
    /\ pc' = "scan"
    /\ UNCHANGED <<diskVars, envVars, run, seen_place_ids, seen_domains, places,
                   enriched, idx, selected_rows, outcome, writes, loaded,
                   prevRuns>>

----------------------------------------------------------------------------
(* extract_generic_emails_from_site(), lines 73-86, called at line 243 *)

ScanBase == normalize_base(det.websiteUri)

ScanUrl == urljoin(ScanBase, ScanPaths[pathIdx])

FetchEvent(i, ok) == [op |-> "fetch", path |-> i, ok |-> ok]
SleepEvent(i) == [op |-> "sleep", path |-> i, ok |-> TRUE]

\* A failed fetch ending the scan instead of line 81's continue
AfterFailureStop(i) == Len(ScanPaths) + 1

\* lines 80-81: the path the loop goes on with after a failed fetch
AfterFailure(i) == i + 1

\* lines 82-85: what a fetched page adds to checked and found
Checked(list, url) == Append(list, url)
Found(set, html) == set \cup GENERIC_EMAIL(html)

\* lines 77-81: http_get() raises, the path is skipped
ScanFetchFail ==
    /\ pc = "scan"
    /\ pathIdx <= Len(ScanPaths)
    /\ ~web[ScanUrl].ok
    /\ scanLog' = Append(scanLog, FetchEvent(pathIdx, FALSE))
    /\ pathIdx' = AfterFailure(pathIdx)
    /\ UNCHANGED <<diskVars, envVars, pc, run, seen_place_ids, seen_domains,
                   places, enriched, idx, selected_rows, det, found, checked,
                   outcome, writes, loaded, prevRuns>>

\* lines 77-85: the page is fetched, matched, and the scanner sleeps
ScanFetchOk ==
    /\ pc = "scan"
    /\ pathIdx <= Len(ScanPaths)
    /\ web[ScanUrl].ok
    /\ checked' = Checked(checked, ScanUrl)
    /\ found' = Found(found, web[ScanUrl].html)
    /\ scanLog' = scanLog \o <<FetchEvent(pathIdx, TRUE), SleepEvent(pathIdx)>>
    /\ pathIdx' = pathIdx + 1
    /\ UNCHANGED <<diskVars, envVars, pc, run, seen_place_ids, seen_domains,
                   places, enriched, idx, selected_rows, det, outcome, writes,
                   loaded, prevRuns>>

\* line 86, then lines 245-270: the row is assembled and accepted
ScanReturn ==
    /\ pc = "scan"
    /\ pathIdx > Len(ScanPaths)
    /\ Accept(MakeRow(Cur.dist, Cur.pid, det.websiteUri, DomainOf(ScanBase),
                      found, checked))
    /\ outcome' = Note("accepted", det)
    /\ idx' = idx + 1
    /\ pc' = "loop"
    /\ UNCHANGED <<diskVars, envVars, run, places, enriched, det, scanVars,
                   writes, loaded, prevRuns>>

----------------------------------------------------------------------------
(* main(), lines 272-287: persist the seen-state, write the artifacts *)

\* Lines 273-274 writing back the domains as they were loaded
SeenToSaveStaleDomains == SeenFileOf(seen_place_ids, loaded.seen_domains)

\* lines 273-274: what is handed to save_seen()
SeenToSave == SeenFileOf(seen_place_ids, seen_domains)

\* line 275 and save_seen()
SaveSeen ==
    /\ pc = "persist"
    /\ seenFile' = SeenToSave
    /\ writes' = Append(writes, "seen")
    /\ pc' = "daily"
    /\ UNCHANGED <<masterFile, dailyFile, envVars, run, seen_place_ids,
                   seen_domains, places, enriched, idx, selected_rows, det,
                   scanVars, outcome, loaded, prevRuns>>

\* lines 278-281 and write_daily_excel()
WriteDaily ==
    /\ pc = "daily"
    /\ dailyFile' = selected_rows
    /\ writes' = Append(writes, "daily")
    /\ pc' = "master"
    /\ UNCHANGED <<seenFile, masterFile, envVars, run, seen_place_ids,
                   seen_domains, places, enriched, idx, selected_rows, det,
                   scanVars, outcome, loaded, prevRuns>>

\* line 282 and append_to_master(), then the summary and the exit
AppendMaster ==
    /\ pc = "master"
    /\ masterFile' = masterFile \o selected_rows
    /\ writes' = Append(writes, "master")
    /\ pc' = "done"
    /\ UNCHANGED <<seenFile, dailyFile, envVars, run, seen_place_ids,
                   seen_domains, places, enriched, idx, selected_rows, det,
                   scanVars, outcome, loaded, prevRuns>>

\* line 289-290: the operator runs the script again
StartRun ==
    /\ pc = "done"
    /\ run < MaxRuns
    /\ run' = run + 1
    /\ prevRuns' = Append(prevRuns, [places |-> places, outcome |-> outcome,
                                     rows |-> Len(selected_rows)])
    /\ pc' = "load"
    /\ seen_place_ids' = {}
    /\ seen_domains' = {}
    /\ places' = <<>>
    /\ enriched' = <<>>
    /\ idx' = 1
    /\ selected_rows' = <<>>
    /\ det' = NoDet
    /\ pathIdx' = 1
    /\ found' = {}
    /\ checked' = <<>>
    /\ scanLog' = <<>>
    /\ outcome' = <<>>
    /\ writes' = <<>>
    /\ loaded' = [seen_place_ids |-> {}, seen_domains |-> {}]
    /\ UNCHANGED <<diskVars, envVars>>

\* The process is killed before main() returns.
Crash ==
    /\ pc \in {"load", "search", "loop", "scan", "persist", "daily", "master"}
    /\ pc' = "crashed"
    /\ UNCHANGED <<diskVars, envVars, run, seen_place_ids, seen_domains, places,
                   enriched, idx, selected_rows, det, scanVars, outcome, writes,
                   loaded, prevRuns>>

\* line 289-290: the script is run again after a run that was killed
Restart ==
    /\ pc = "crashed"
    /\ run < MaxRuns
    /\ run' = run + 1
    /\ prevRuns' = Append(prevRuns,
                          [places |-> <<>>, outcome |-> <<>>,
                           rows |-> Len(selected_rows),
                           lost |-> {r.place_id : r \in {selected_rows[i] : i \in 1..Len(selected_rows)}},
                           persisted |-> writes # <<>>])
    /\ pc' = "load"
    /\ seen_place_ids' = {}
    /\ seen_domains' = {}
    /\ places' = <<>>
    /\ enriched' = <<>>
    /\ idx' = 1
    /\ selected_rows' = <<>>
    /\ det' = NoDet
    /\ pathIdx' = 1
    /\ found' = {}
    /\ checked' = <<>>
    /\ scanLog' = <<>>
    /\ outcome' = <<>>
    /\ writes' = <<>>
    /\ loaded' = [seen_place_ids |-> {}, seen_domains |-> {}]
    /\ UNCHANGED <<diskVars, envVars>>

Next ==
    \/ LoadSeen
    \/ Search
    \/ LoopExit
    \/ LoopSkip
    \/ DetailsFail
    \/ DomainDup
    \/ AcceptNoSite
    \/ ScanBegin
    \/ ScanFetchFail
    \/ ScanFetchOk
    \/ ScanReturn
    \/ SaveSeen
    \/ WriteDaily
    \/ AppendMaster
    \/ StartRun

\* One run of main()
NextRun ==
    \/ LoadSeen
    \/ Search
    \/ LoopExit
    \/ LoopSkip
    \/ DetailsFail
    \/ DomainDup
    \/ AcceptNoSite
    \/ ScanBegin
    \/ ScanFetchFail
    \/ ScanFetchOk
    \/ ScanReturn
    \/ SaveSeen
    \/ WriteDaily
    \/ AppendMaster

\* One run of main(), the load or the search possibly failing
NextFail ==
    \/ NextRun
    \/ LoadFails
    \/ SearchFails

\* Runs of main() that can be killed at any point and run again
NextCrash ==
    \/ NextRun
    \/ Crash
    \/ Restart

Spec == Init /\ [][Next]_vars

SpecRun == InitRun /\ [][NextRun]_vars

SpecScan == InitScan /\ [][NextRun]_vars

SpecFail == InitFail /\ [][NextFail]_vars

SpecCrash == InitCrash /\ [][NextCrash]_vars

----------------------------------------------------------------------------
(* Vocabulary of the properties *)

Range(f) == {f[i] : i \in DOMAIN f}

AfterLoop == pc \in {"persist", "daily", "master", "done"}

\* The rows written by the runs completed before the current one
PrevRows ==
    IF pc = "done"
    THEN SubSeq(masterFile, 1, Len(masterFile) - Len(selected_rows))
    ELSE masterFile

LookedUp(o) == o.what \in {"detail_failed", "domain_seen", "accepted"}

\* The current run received the responses of the run before it: the same
\* search response, and the same detail response for every identifier both
\* runs looked up.
SameResponsesAsPrev ==
    /\ run >= 2
    /\ places = prevRuns[run - 1].places
    /\ \A a \in Range(outcome), b \in Range(prevRuns[run - 1].outcome) :
          (a.pid = b.pid /\ LookedUp(a) /\ LookedUp(b)) => a.det = b.det

----------------------------------------------------------------------------
(* C1 *)

\* C1: across runs of main() that each start from the seen-state file the
\* previous run persisted, no place identifier and no non-empty domain is in
\* the output rows of two different runs.
C1_NoRepeatAcrossRuns ==
    \A r \in Range(selected_rows), q \in Range(PrevRows) :
        /\ r.place_id # q.place_id
        /\ r.company_domain # "" => r.company_domain # q.company_domain

\* A second run that was offered an identifier of one of the first run's rows
\* and, under another identifier, the domain of one, and suppressed both.
C1_Witness ==
    /\ run = 2
    /\ pc = "done"
    /\ \E o \in Range(outcome) :
          o.what = "skipped" /\ o.pid \in {q.place_id : q \in Range(PrevRows)}
    /\ \E o \in Range(outcome) :
          /\ o.what = "domain_seen"
          /\ DomainOf(normalize_base(o.det.websiteUri))
                \in {q.company_domain : q \in Range(PrevRows)}

----------------------------------------------------------------------------
(* C2 *)

\* C2 as stated: a run that starts from the seen-state file the run before it
\* left and receives identical search and detail responses emits no row.
C2_RerunEmitsNothing ==
    (run = 2 /\ AfterLoop /\ SameResponsesAsPrev) => selected_rows = <<>>

\* C2, amended: a run that starts from the seen-state file the run before it
\* left and receives identical responses emits no row, provided the run
\* before it accepted fewer rows than the daily cap.
C2_RerunAfterUncappedRun ==
    (run = 2 /\ SameResponsesAsPrev /\ prevRuns[1].rows < DAILY_LIMIT)
        => selected_rows = <<>>

\* A rerun over the response of a first run that accepted a row below the cap.
C2_Witness ==
    /\ run = 2
    /\ pc = "done"
    /\ SameResponsesAsPrev
    /\ prevRuns[1].rows >= 1
    /\ prevRuns[1].rows < DAILY_LIMIT
    /\ Len(outcome) = 2

----------------------------------------------------------------------------
(* C3 *)

Emitted(k) == k <= Len(outcome) /\ outcome[k].what = "accepted"

HasCoords(p) == p.hasLat /\ p.hasLng

\* Candidate a is strictly nearer to the origin than candidate b: both have
\* coordinates and a's distance is the smaller.
Nearer(a, b) == HasCoords(a.p) /\ HasCoords(b.p) /\ a.p.km < b.p.km

\* A candidate the loop never reached whose identifier is present and unseen.
\* The candidates the loop reached and did not emit were not eligible: their
\* identifier was missing or seen, their lookup failed or their domain was seen.
LeftEligible(k) ==
    /\ k > Len(outcome)
    /\ enriched[k].pid # ""
    /\ enriched[k].pid \notin seen_place_ids

\* C3: whatever the order of the search response and the cap N >= 0, a run
\* emits at most N rows, and no eligible candidate left un-emitted is strictly
\* nearer to the origin than an emitted one.
C3_NearestWithinCap ==
    /\ Len(selected_rows) <= DAILY_LIMIT
    /\ AfterLoop =>
          \A i, j \in 1..Len(enriched) :
              (Emitted(j) /\ LeftEligible(i)) => ~Nearer(enriched[i], enriched[j])

\* The cap was reached on the nearer of two candidates the search returned
\* farthest first, and the farther one was left eligible.
C3_Witness ==
    /\ pc = "persist"
    /\ DAILY_LIMIT = 1
    /\ Len(places) = 2
    /\ Nearer([p |-> places[2]], [p |-> places[1]])
    /\ Emitted(1)
    /\ LeftEligible(2)
    /\ enriched[1].p = places[2]

----------------------------------------------------------------------------
(* C4 *)

\* C4: on the success path persisting the seen-state is the last write: no
\* output artifact is written after the seen-state file.
C4_PersistIsLastWrite ==
    \A i, j \in 1..Len(writes) :
        (i < j /\ writes[i] = "seen") => writes[j] \notin {"daily", "master"}

----------------------------------------------------------------------------
(* C5 *)

\* C5: in a scan the politeness delay is applied between any two consecutive
\* fetch attempts, whether the earlier one succeeded or failed.
C5_DelayBetweenAttempts ==
    \A i \in 1..Len(scanLog) :
        (scanLog[i].op = "fetch" /\ i < Len(scanLog)) => scanLog[i + 1].op = "sleep"

----------------------------------------------------------------------------
(* C6 *)

IsFetch(e) == e.op = "fetch"
IsFetched(e) == e.op = "fetch" /\ e.ok

Attempts == SelectSeq(scanLog, IsFetch)
Fetched == SelectSeq(scanLog, IsFetched)

\* The scan in hand has gone through the whole path list.
ScanOver == pathIdx > Len(ScanPaths)

\* C6: whichever paths fail, every path of the list is attempted exactly once
\* in list order, the scan returns, and the finding set and the checked list
\* hold the contributions of the fetched paths and of no other.
C6_FailedPathsAreSkipped ==
    (pc = "scan" \/ (outcome # <<>> /\ outcome[Len(outcome)].what = "accepted"
                      /\ outcome[Len(outcome)].det.websiteUri # NoWebsite)) =>
        /\ \A k \in 1..Len(Attempts) : Attempts[k].path = k
        /\ Len(Attempts) = pathIdx - 1
        /\ pathIdx <= Len(ScanPaths) + 1
        /\ pc # "scan" => (ScanOver /\ Len(Attempts) = Len(ScanPaths))
        /\ checked = [k \in 1..Len(Fetched) |->
                         urljoin(ScanBase, ScanPaths[Fetched[k].path])]
        /\ found = UNION {GENERIC_EMAIL(web[urljoin(ScanBase, ScanPaths[e.path])].html) :
                             e \in Range(Fetched)}
        /\ (pc = "scan" /\ ScanOver) => ENABLED ScanReturn

\* A scan that returned after its first path failed and a later one answered
\* with a role address.
C6_Witness ==
    /\ pc = "loop"
    /\ outcome # <<>>
    /\ outcome[Len(outcome)].what = "accepted"
    /\ Len(Attempts) = Len(ScanPaths)
    /\ ~Attempts[1].ok
    /\ Fetched # <<>>
    /\ found # {}
    /\ selected_rows[Len(selected_rows)].emails = found

----------------------------------------------------------------------------
(* C7 *)

\* The step records a new outcome; Latest is that outcome.
Noted == Len(outcome') = Len(outcome) + 1
Latest == outcome'[Len(outcome')]

\* C7: when the detail lookup of an unseen candidate fails, its identifier is
\* added to the seen identifiers, no row is appended, the seen domains are
\* unchanged, no scan is made and the loop goes on with the next candidate;
\* the identifier is in the seen-state file the run persists.
C7_FailedLookupMarksSeen ==
    /\ [][(Noted /\ Latest.what = "detail_failed") =>
            /\ Latest.pid \notin seen_place_ids
            /\ seen_place_ids' = seen_place_ids \cup {Latest.pid}
            /\ selected_rows' = selected_rows
            /\ seen_domains' = seen_domains
            /\ UNCHANGED scanVars
            /\ pc' = "loop"
            /\ idx' = idx + 1]_vars
    /\ [](pc \in {"daily", "master", "done"} =>
            \A o \in Range(outcome) :
                o.what = "detail_failed" => o.pid \in seenFile.seen_place_ids)

\* A run that ended after a lookup failed and the loop went on to another
\* candidate.
C7_Witness ==
    /\ pc = "done"
    /\ Len(outcome) = 2
    /\ outcome[1].what = "detail_failed"
    /\ outcome[1].pid \notin loaded.seen_place_ids
    /\ outcome[2].what = "accepted"

----------------------------------------------------------------------------
(* C8 *)

\* C8: when an enriched candidate's normalized domain is non-empty and already
\* in the seen domains, the identifier is marked seen, no row is appended, no
\* scan is made and the count of accepted rows is unchanged.
C8_SeenDomainSuppressed ==
    [][(/\ Noted
        /\ LookedUp(Latest)
        /\ Latest.det.ok
        /\ DomainOf(normalize_base(Latest.det.websiteUri)) # ""
        /\ DomainOf(normalize_base(Latest.det.websiteUri)) \in seen_domains) =>
          /\ Latest.what = "domain_seen"
          /\ pc = "loop"
          /\ pc' = "loop"
          /\ seen_place_ids' = seen_place_ids \cup {Latest.pid}
          /\ selected_rows' = selected_rows
          /\ seen_domains' = seen_domains
          /\ UNCHANGED scanVars]_vars

\* A candidate suppressed for the domain of a row accepted earlier in the run,
\* its website written differently.
C8_Witness ==
    /\ Len(outcome) = 2
    /\ outcome[1].what = "accepted"
    /\ outcome[2].what = "domain_seen"
    /\ outcome[2].pid # outcome[1].pid
    /\ outcome[2].det.websiteUri # outcome[1].det.websiteUri
    /\ DomainOf(normalize_base(outcome[2].det.websiteUri)) \notin loaded.seen_domains
    /\ outcome[2].pid \in seen_place_ids
    /\ Len(selected_rows) = 1

----------------------------------------------------------------------------
(* C9 *)

\* C9: a candidate whose identifier is in the seen identifiers when the loop
\* reaches it is skipped with no effect: no lookup, no scan, no row, and both
\* seen sets unchanged.
C9_SeenCandidateSkipped ==
    [][(pc = "loop" /\ ~LoopDone /\ Cur.pid \in seen_place_ids) =>
          /\ outcome' = Append(outcome, [what |-> "skipped", pid |-> Cur.pid,
                                         det |-> NoDet])
          /\ idx' = idx + 1
          /\ pc' = "loop"
          /\ UNCHANGED <<seen_place_ids, seen_domains, selected_rows, det,
                         scanVars, diskVars, writes>>]_vars

\* A candidate skipped for an identifier that the file held, after another
\* candidate was accepted.
C9_Witness ==
    /\ Len(outcome) = 2
    /\ outcome[1].what = "accepted"
    /\ outcome[2].what = "skipped"
    /\ outcome[2].pid \in loaded.seen_place_ids
    /\ Len(selected_rows) = 1

----------------------------------------------------------------------------
(* C10 *)

\* The display names of the search results, lower-cased, in alphabetical order
NamesInOrder ==
    << "alpha engineers", "beta design", "civils co", "delta structures",
       "epsilon consulting" >>

LowerName(n) ==
    CASE n = "Alpha Engineers"    -> "alpha engineers"
      [] n = "Beta Design"        -> "beta design"
      [] n = "Civils Co"          -> "civils co"
      [] n = "delta Structures"   -> "delta structures"
      [] n = "Epsilon Consulting" -> "epsilon consulting"

NameRank(n) == CHOOSE k \in 1..Len(NamesInOrder) : NamesInOrder[k] = LowerName(n)

Sorted == pc \notin {"load", "search"}

\* C10 as stated: candidates are processed in ascending order of distance,
\* those of equal or absent distance in case-insensitive order of their names.
C10_TiesByName ==
    Sorted =>
        /\ \A k \in 1..Len(outcome) : outcome[k].pid = enriched[k].pid
        /\ \A i, j \in 1..Len(enriched) :
              i < j => \/ enriched[i].dist < enriched[j].dist
                       \/ /\ enriched[i].dist = enriched[j].dist
                          /\ NameRank(enriched[i].p.name) <= NameRank(enriched[j].p.name)

\* C10, amended: candidates are processed in ascending order of the sort key
\* (the distance, or 9999.0 km when a coordinate is absent), and candidates of
\* equal key in the order in which the search returned them.
C10_StableByDistance ==
    Sorted =>
        /\ \A k \in 1..Len(outcome) : outcome[k].pid = enriched[k].pid
        /\ Len(enriched) = Len(places)
        /\ \E f \in Permutations(1..Len(places)) :
              /\ \A k \in 1..Len(places) :
                    enriched[k] = [dist |-> DistOf(places[f[k]]),
                                   pid |-> places[f[k]].id, p |-> places[f[k]]]
              /\ \A k, l \in 1..Len(places) :
                    k < l => \/ enriched[k].dist < enriched[l].dist
                             \/ (enriched[k].dist = enriched[l].dist /\ f[k] < f[l])

\* Two candidates of equal distance, returned and processed against the order
\* of their names.
C10_Witness ==
    /\ Len(places) = 2
    /\ DistOf(places[1]) = DistOf(places[2])
    /\ NameRank(places[1].name) > NameRank(places[2].name)
    /\ Len(outcome) = 2
    /\ outcome[1].pid = places[1].id
    /\ outcome[2].pid = places[2].id
    /\ outcome[1].pid # outcome[2].pid

----------------------------------------------------------------------------
(* C11 *)

\* The row accepted for the k-th candidate of the sorted list
RowOf(k) == selected_rows[Cardinality({m \in 1..k : Emitted(m)})]

\* C11: a candidate lacking a coordinate is processed after every candidate
\* that has coordinates and its row reports a blank distance; a candidate that
\* has coordinates is never placed after one that lacks them and its row
\* reports its distance rounded to one decimal, whatever the distance.
C11_MissingCoordsLast ==
    Sorted =>
        /\ \A i, j \in 1..Len(enriched) :
              (~HasCoords(enriched[i].p) /\ HasCoords(enriched[j].p)) => j < i
        /\ \A k \in 1..Len(enriched) :
              Emitted(k) =>
                  RowOf(k).distance_km =
                      (IF HasCoords(enriched[k].p)
                       THEN <<Round1(enriched[k].p.km)>> ELSE <<>>)

----------------------------------------------------------------------------
(* C12 *)

\* C12: when the search request fails the run aborts at once: no detail
\* lookup and no scan is made, neither artifact is written, and the seen-state
\* file keeps the content it had when the run started.
C12_SearchFailureAborts ==
    /\ [][(pc = "load" \/ pc = "search") => (diskVars' = diskVars)]_vars
    /\ [][pc = "search" => pc' \in {"loop", "search_failed"}]_vars
    /\ [][pc = "search_failed" => pc' = "search_failed"]_vars
    /\ [](pc = "search_failed" =>
            /\ outcome = <<>>
            /\ scanLog = <<>>
            /\ selected_rows = <<>>
            /\ writes = <<>>
            /\ masterFile = <<>>
            /\ dailyFile = <<>>)

\* A run that found a seen-state file, loaded it and aborted on the search.
C12_Witness ==
    /\ pc = "search_failed"
    /\ seenFile = SeenFileOf({"p2"}, {"firm.co.uk"})
    /\ loaded.seen_place_ids = {"p2"}

----------------------------------------------------------------------------
(* C13 *)

\* C13: an absent seen-state file yields two empty sets and the run goes on;
\* malformed content, unparseable or not a record of two string arrays,
\* aborts the run before any search and the file is not overwritten.
C13_MalformedLoadAborts ==
    /\ (seenFile.exists /\ seenFile.form # "record") => pc \in {"load", "load_failed"}
    /\ (~seenFile.exists /\ pc # "load") =>
          loaded = [seen_place_ids |-> {}, seen_domains |-> {}]

----------------------------------------------------------------------------
(* C14 *)

\* The identifiers the loop marked in this run
MarkedIds == {o.pid : o \in {x \in Range(outcome) : LookedUp(x)}}

\* The domains of the rows accepted in this run
AcceptedDomains == {r.company_domain : r \in Range(selected_rows)} \ {""}

\* C14: a successful run persists the seen-state exactly once, after the
\* loop, and writes the complete state: the loaded identifiers with every
\* identifier marked in the run, the loaded domains with the domain of every
\* accepted row.
C14_PersistedOnceAndComplete ==
    /\ Cardinality({i \in 1..Len(writes) : writes[i] = "seen"}) <= 1
    /\ ("seen" \in Range(writes)) <=> (pc \in {"daily", "master", "done"})
    /\ pc \in {"daily", "master", "done"} =>
          /\ idx > Len(enriched) \/ Len(selected_rows) >= DAILY_LIMIT
          /\ seenFile = SeenFileOf(loaded.seen_place_ids \cup MarkedIds,
                                   loaded.seen_domains \cup AcceptedDomains)

\* A run that loaded an identifier and a domain, marked an identifier for a
\* failed lookup, accepted a row with a new domain and persisted.
C14_Witness ==
    /\ pc = "done"
    /\ loaded.seen_place_ids # {}
    /\ loaded.seen_domains # {}
    /\ \E o \in Range(outcome) : o.what = "detail_failed"
    /\ AcceptedDomains # {}
    /\ AcceptedDomains \cap loaded.seen_domains = {}

----------------------------------------------------------------------------
(* C16 *)

\* C16: an enriched, unseen candidate with no website is accepted without a
\* scan: its row has no e-mail, no checked page and no domain, its identifier
\* is marked and the seen domains are unchanged; any number of such
\* candidates can be accepted in one run.
C16_NoWebsiteIsAccepted ==
    [][(/\ Noted
        /\ LookedUp(Latest)
        /\ Latest.det.ok
        /\ Latest.det.websiteUri = NoWebsite) =>
          /\ Latest.what = "accepted"
          /\ pc = "loop"
          /\ pc' = "loop"
          /\ Len(selected_rows') = Len(selected_rows) + 1
          /\ selected_rows'[Len(selected_rows')].place_id = Latest.pid
          /\ selected_rows'[Len(selected_rows')].emails = {}
          /\ selected_rows'[Len(selected_rows')].pages_checked = <<>>
          /\ selected_rows'[Len(selected_rows')].company_domain = ""
          /\ SubSeq(selected_rows', 1, Len(selected_rows)) = selected_rows
          /\ seen_place_ids' = seen_place_ids \cup {Latest.pid}
          /\ seen_domains' = seen_domains
          /\ UNCHANGED scanVars]_vars

\* Two candidates without a website accepted in the same run.
C16_Witness ==
    /\ Len(selected_rows) = 2
    /\ selected_rows[1].company_domain = ""
    /\ selected_rows[2].company_domain = ""
    /\ selected_rows[1].website = NoWebsite
    /\ selected_rows[2].website = NoWebsite
    /\ selected_rows[1].place_id # selected_rows[2].place_id
    /\ {selected_rows[1].place_id, selected_rows[2].place_id} \subseteq seen_place_ids

----------------------------------------------------------------------------
(* C15 *)

\* The seen-state file has been written in the run in hand.
Persisted == "seen" \in Range(writes)

RowIds(rows) == {rows[i].place_id : i \in 1..Len(rows)}

\* C15: as long as a run has not persisted the seen-state, no step of it,
\* its termination included, changes the seen-state file or an output
\* artifact; so the run that follows a run killed before persisting starts
\* from the same files, and the master artifact never holds two rows for one
\* place identifier.
C15_KilledBeforePersistLeavesNoTrace ==
    /\ [][(run' = run /\ ~Persisted') => (diskVars' = diskVars)]_vars
    /\ [][(pc = "crashed" /\ ~Persisted /\ run' = run + 1) =>
             /\ diskVars' = diskVars
             /\ seen_place_ids' = {}
             /\ seen_domains' = {}
             /\ selected_rows' = <<>>]_vars
    /\ [](\A i, j \in 1..Len(masterFile) :
             masterFile[i].place_id = masterFile[j].place_id => i = j)

\* A run killed with a row accumulated and nothing persisted, followed by a
\* run that processed the same candidate again and wrote its row.
C15_Witness ==
    /\ run = 2
    /\ pc = "done"
    /\ ~prevRuns[1].persisted
    /\ prevRuns[1].lost # {}
    /\ prevRuns[1].lost \cap RowIds(masterFile) # {}
    /\ prevRuns[1].lost \subseteq seenFile.seen_place_ids

----------------------------------------------------------------------------
(* C17 *)

\* The address a is one whose whole local part is a role word.
RoleAddress(a) == Len(a.local) = 1 /\ Lower(a.local[1]) \in RoleWords

\* The addresses of the pages fetched so far in the scan in hand
FetchedAddresses ==
    UNION {web[urljoin(ScanBase, ScanPaths[e.path])].html : e \in Range(Fetched)}

\* C17: every address the scanner reports is an address of a fetched page
\* whose whole local part is a role word; nothing is reported for a personal
\* address or for a local part that ends in a role word after a separator.
C17_OnlyRoleAddresses ==
    pc = "scan" =>
        /\ \A m \in found : m \in FetchedAddresses /\ RoleAddress(m)
        /\ \A a \in FetchedAddresses : RoleAddress(a) => a \in found

----------------------------------------------------------------------------
(* C18 *)

\* C18: every accepted row has its place identifier in the seen identifiers
\* and its domain, when it has one, in the seen domains; no two accepted rows
\* of a run share a place identifier or a non-empty domain.
C18_AcceptedRowsAreMarked ==
    /\ \A i \in 1..Len(selected_rows) :
          /\ selected_rows[i].place_id \in seen_place_ids
          /\ selected_rows[i].company_domain # "" =>
                selected_rows[i].company_domain \in seen_domains
    /\ \A i, j \in 1..Len(selected_rows) :
          i # j =>
             /\ selected_rows[i].place_id # selected_rows[j].place_id
             /\ selected_rows[i].company_domain # "" =>
                   selected_rows[i].company_domain # selected_rows[j].company_domain

\* The search returned two listings of one website under different
\* identifiers: the first was accepted, the second suppressed.
C18_Witness ==
    /\ Len(outcome) = 2
    /\ outcome[1].what = "accepted"
    /\ outcome[2].what = "domain_seen"
    /\ outcome[1].pid # outcome[2].pid
    /\ loaded.seen_domains = {}
    /\ Len(selected_rows) = 1
    /\ selected_rows[1].company_domain = DomainOf(normalize_base(outcome[2].det.websiteUri))

----------------------------------------------------------------------------
(* C19 *)

\* The identifiers the file holds because a row was accepted in this run
DurablyAccepted ==
    {o.pid : o \in {x \in Range(outcome) : x.what = "accepted"}}
        \cap (seenFile.seen_place_ids \ loaded.seen_place_ids)

\* C19: wherever a run is killed, every identifier that the seen-state file
\* holds because a row was accepted for it has that row in the master
\* artifact.
C19_DurableMarkHasRow ==
    pc = "crashed" => DurablyAccepted \subseteq RowIds(masterFile)

----------------------------------------------------------------------------
(* C20 *)

\* C20: a search result without a place identifier is passed over with no
\* effect, in every run that receives it: no lookup, no scan, no row, no
\* output slot, and the empty identifier never enters a seen set, the
\* seen-state file or an output row.
C20_NoIdPassedOver ==
    /\ [][(pc = "loop" /\ ~LoopDone /\ Cur.pid = "") =>
             /\ outcome' = Append(outcome, [what |-> "skipped", pid |-> "",
                                            det |-> NoDet])
             /\ idx' = idx + 1
             /\ pc' = "loop"
             /\ UNCHANGED <<seen_place_ids, seen_domains, selected_rows, det,
                            scanVars, diskVars, writes>>]_vars
    /\ []("" \notin seen_place_ids \cup seenFile.seen_place_ids
                    \cup RowIds(selected_rows) \cup RowIds(masterFile)
                    \cup RowIds(dailyFile))

\* The second run received the result without an identifier again and passed
\* it over again, then accepted the candidate after it.
C20_Witness ==
    /\ run = 2
    /\ prevRuns[1].outcome # <<>>
    /\ prevRuns[1].outcome[1].what = "skipped"
    /\ prevRuns[1].outcome[1].pid = ""
    /\ Len(outcome) = 2
    /\ outcome[1].what = "skipped"
    /\ outcome[1].pid = ""
    /\ outcome[2].what = "accepted"

====
